---- MODULE Spec2Model ----
(***************************************************************************)
(* Document-state and money subsystem of the invoicing application:        *)
(* the final-invoice detail page with its payment ledger, and the          *)
(* proforma detail page with its conversion to final invoices.             *)
(*                                                                         *)
(* Money is counted in thousandths of a dinar (1 DZD = 1000), so that      *)
(* Math.round(x * 100) / 100 is a real conversion and not the identity.    *)
(* Every browser session works on its own cached copy of the record it     *)
(* shows (the query cache); the datastore is shared.                       *)
(***************************************************************************)
EXTENDS Integers, Sequences, FiniteSets, TLC

\* ---------------------------------------------------------------- bounds
Sessions == {"s1", "s2"}
\* the users logged in to the sessions
Logins == {[s1 |-> "admin", s2 |-> "accountant"], [s1 |-> "accountant", s2 |-> "viewer"]}
MaxPayments == 2
MaxEdits == 1
MaxFinals == 3
Totals == {20, 5}
EnteredValues == {-10, 0, 4, 10, 50}

\* ---------------------------------------------------------------- constants
ProformaStatuses == {"draft", "sent", "approved", "rejected"}
FinalStatuses == {"unpaid", "partially_paid", "paid", "cancelled", "credited"}
NoInv == [id |-> 0]
NoView == [id |-> 0]
NoProforma == [status |-> "none", finalInvoiceId |-> 0]
Untouched == [nan |-> FALSE, v |-> -1000]
NoForm == [page |-> "none"]
NoTotals == [subtotal |-> 0, taxTotal |-> 0, stampTax |-> 0, total |-> 0]
NoDoc == [page |-> "none"]
NotSaving == [step |-> "idle"]
NoRequest == [pc |-> "idle"]
NoNote == [status |-> "none"]
\* parseFloat of the text typed in the amount field
Entered == {[nan |-> TRUE, v |-> 0]} \cup {[nan |-> FALSE, v |-> x] : x \in EnteredValues}

VARIABLES
  role,       \* role[s]: the role of the user logged in to session s
  inv,        \* the final invoice row in the datastore, or NoInv
  payments,   \* the invoice's ledger rows, in insertion order
  nextPid,    \* number of ledger rows inserted so far
  edits,      \* number of saves of the invoice edit form so far
  view,       \* view[s]: session s's cached invoice and payments, or NoView
  pend,       \* pend[s]: the payment mutation of s that is between its two writes
  pro,        \* the proforma row in the datastore, or NoProforma
  finals,     \* the final invoices created from the proforma page or form
  nextFinal,  \* number of final invoices created on the proforma side so far
  pview,      \* pview[s]: session s's cached proforma, or NoProforma
  undone,     \* the final invoices that undoConversion has deleted
  actor,      \* the session that performed the last proforma operation
  form,       \* the invoice form being filled in: its page, payment type and items
  totals,     \* the totals the form page displays
  doc,        \* the invoice or proforma the form page persists, or NoDoc
  saving,     \* the position of the running save of the proforma form
  seq,        \* last value of invoice_number_seq
  pool,       \* deleted_invoice_numbers, ordered by deleted_at
  issued,     \* the numbers of the existing final invoices, by invoice id
  gen,        \* gen[s]: the create-invoice request of session s in flight
  note,       \* the delivery note row in the datastore, or NoNote
  nview       \* nview[s]: session s's cached delivery note, or NoNote

payVars == <<inv, payments, nextPid, edits, view, pend>>
proVars == <<pro, finals, nextFinal, pview, undone, actor>>
calcVars == <<form, totals, doc, saving>>
numVars == <<seq, pool, issued, gen>>
noteVars == <<note, nview>>
vars == <<role, payVars, proVars, calcVars, numVars, noteVars>>

\* ---------------------------------------------------------------- helpers
Max(a, b) == IF a >= b THEN a ELSE b

\* Math.round(x * 100) / 100 on thousandths: floor(x / 10 + 1/2) * 10
Round2(x) == ((x + 5) \div 10) * 10

RECURSIVE totalPaidOf(_)
totalPaidOf(rows) ==
  IF rows = <<>> THEN 0 ELSE Head(rows).amount + totalPaidOf(Tail(rows))

checkPermission(s, allowed) == role[s] \in allowed

canEdit(s) == checkPermission(s, {"admin", "accountant"})

\* NewFinalInvoiceButton: who is offered the new-final-invoice form
canCreateFinal(s) == checkPermission(s, {"admin", "accountant"})

\* The payment summary the page shows for a cached invoice.
paymentSummary(invoice) ==
  [amountPaid |-> invoice.amount_paid, clientDebt |-> invoice.client_debt]

\* computedStatus with > for >= in the paid test
computedStatus_Strict(status, amountPaid, total) ==
  IF amountPaid > total THEN "paid"
  ELSE IF amountPaid > 0 THEN "partially_paid"
  ELSE IF status # "cancelled" /\ status # "credited" THEN "unpaid"
  ELSE status

\* computedStatus with the cancelled / credited test of the last branch forgotten
computedStatus_NoSticky(status, amountPaid, total) ==
  IF amountPaid >= total THEN "paid"
  ELSE IF amountPaid > 0 THEN "partially_paid"
  ELSE "unpaid"

computedStatus(status, amountPaid, total) ==
  IF amountPaid >= total THEN "paid"
  ELSE IF amountPaid > 0 THEN "partially_paid"
  ELSE IF status # "cancelled" /\ status # "credited" THEN "unpaid"
  ELSE status

viewStatus(s) ==
  computedStatus(view[s].status, paymentSummary(view[s]).amountPaid, view[s].total)

\* What a refetch of both queries puts in the cache.
Snapshot(invoice, rows) ==
  IF invoice = NoInv THEN NoView
  ELSE [id |-> invoice.id, status |-> invoice.status, total |-> invoice.total,
        amount_paid |-> invoice.amount_paid, client_debt |-> invoice.client_debt,
        payments |-> rows]

\* onChangeAmount with the clamp to the remaining debt forgotten
onChangeAmount_NoClamp(e, remainingDebt) ==
  IF e.nan THEN 0 ELSE Round2(e.v)

\* The amount field's onChange handler.
onChangeAmount(e, remainingDebt) ==
  IF ~e.nan /\ Round2(e.v) <= remainingDebt THEN Round2(e.v)
  ELSE IF e.nan THEN 0
  ELSE Round2(remainingDebt)

\* The amount the form holds when it is submitted: the default value, the
\* remaining debt, or what onChange made of the text typed last
formAmount(e, remainingDebt) ==
  IF e = Untouched THEN remainingDebt ELSE onChangeAmount(e, remainingDebt)

\* paymentFormSchema: amount is a positive number
schemaAccepts(amount) == amount > 0

\* The two "Ajouter un paiement" triggers of the detail page
canOpenPaymentForm(s) ==
  \/ canEdit(s) /\ paymentSummary(view[s]).clientDebt > 0
  \/ /\ viewStatus(s) # "cancelled" /\ viewStatus(s) # "credited"
     /\ canEdit(s) /\ paymentSummary(view[s]).clientDebt > 0

\* addInvoicePayment, first write: the ledger row
insertPayment(rows, pid, amount) == Append(rows, [id |-> pid, amount |-> amount])

\* deleteInvoicePayment: the ledger row is removed
removePayment(rows, pid) == SelectSeq(rows, LAMBDA r : r.id # pid)

\* addInvoicePayment, second write: the invoice's aggregates are recomputed
\* from the ledger
recomputeAggregates(invoice, rows) ==
  LET totalPaid == totalPaidOf(rows) IN
  [invoice EXCEPT
     !.amount_paid = totalPaid,
     !.client_debt = Max(0, invoice.total - totalPaid),
     !.status = IF invoice.status \in {"cancelled", "credited"} THEN invoice.status
                ELSE IF totalPaid >= invoice.total THEN "paid"
                ELSE IF totalPaid > 0 THEN "partially_paid"
                ELSE "unpaid"]

\* updateFinalInvoice: the fields of data overwrite those of the stored row
updateFinalInvoice(invoice, data) ==
  [k \in DOMAIN invoice |-> IF k \in DOMAIN data THEN data[k] ELSE invoice[k]]

\* markPaidData with the two amounts swapped
markPaidData_Swapped(invoice) ==
  [status |-> "paid", amount_paid |-> 0, client_debt |-> invoice.total]

\* The data the "Marquer comme payé" confirmation sends
markPaidData(invoice) ==
  [status |-> "paid", amount_paid |-> invoice.total, client_debt |-> 0]

\* handleUpdateStatus with the no-payments branch zeroing the debt as well
handleUpdateStatus_ZeroBoth(invoice, status) ==
  LET totalPaid == totalPaidOf(invoice.payments) IN
  IF status = "unpaid"
  THEN IF totalPaid > 0
       THEN [status |-> status, amount_paid |-> totalPaid,
             client_debt |-> Max(0, invoice.total - totalPaid)]
       ELSE [status |-> status, amount_paid |-> 0, client_debt |-> 0]
  ELSE [status |-> status]

\* handleUpdateStatus(status) as called for 'cancelled' and 'unpaid', on the
\* cached invoice and the cached payment list
handleUpdateStatus(invoice, status) ==
  LET totalPaid == totalPaidOf(invoice.payments) IN
  IF status = "unpaid"
  THEN IF totalPaid > 0
       THEN [status |-> status, amount_paid |-> totalPaid,
             client_debt |-> Max(0, invoice.total - totalPaid)]
       ELSE [status |-> status, amount_paid |-> 0, client_debt |-> invoice.total]
  ELSE [status |-> status]

\* The guards of the action buttons of the detail page
canMarkPaid(s) == viewStatus(s) = "unpaid" /\ canEdit(s)
canCancel(s) == viewStatus(s) = "unpaid" /\ canEdit(s)
canDelete(s) == canEdit(s) /\ viewStatus(s) = "unpaid"
canRevert(s) == viewStatus(s) \in {"paid", "partially_paid", "cancelled"} /\ canEdit(s)
canOpenEdit(s) == canEdit(s) /\ view[s].status # "credited"

\* ---------------------------------------------------------------- Init
\* invoiceData of createInvoiceMutation: the row a new final invoice is
\* stored as
invoiceData(t) ==
  [id |-> 1, status |-> "NonPayé", total |-> t, amount_paid |-> 0, client_debt |-> t]

\* One final invoice, as NewFinalInvoice has just created it; no session has
\* opened its detail page yet
Init ==
  /\ role \in Logins
  /\ \E t \in Totals : inv = invoiceData(t)
  /\ payments = <<>>
  /\ nextPid = 0
  /\ edits = 0
  /\ view = [s \in Sessions |-> NoView]
  /\ pend = [s \in Sessions |-> "idle"]
  /\ pro = NoProforma
  /\ finals = {}
  /\ nextFinal = 0
  /\ pview = [s \in Sessions |-> NoProforma]
  /\ undone = {}
  /\ actor = "s1"
  /\ form = NoForm
  /\ totals = NoTotals
  /\ doc = NoDoc
  /\ saving = NotSaving
  /\ seq = 0
  /\ pool = <<>>
  /\ issued = <<>>
  /\ gen = [s \in Sessions |-> NoRequest]
  /\ note = NoNote
  /\ nview = [s \in Sessions |-> NoNote]

\* ---------------------------------------------------------------- actions
\* Opening the detail page, or any refetch of its two queries
Refetch(s) ==
  /\ pend[s] = "idle"
  /\ view[s] # Snapshot(inv, payments)
  /\ view' = [view EXCEPT ![s] = Snapshot(inv, payments)]
  /\ UNCHANGED <<role, calcVars, numVars, noteVars, proVars, inv, payments, nextPid, edits, pend>>


\* The payment dialog: opened by an "Ajouter un paiement" button on the
\* cached remaining debt, the amount field left at its default or typed
\* into, the form submitted: schema validation, then the first write of
\* addInvoicePayment, the insert of the ledger row
SubmitPayment(s, e) ==
  /\ pend[s] = "idle"
  /\ view[s] # NoView
  /\ canOpenPaymentForm(s)
  /\ LET amount == formAmount(e, paymentSummary(view[s]).clientDebt) IN
     /\ schemaAccepts(amount)
     /\ nextPid < MaxPayments
     /\ IF inv # NoInv /\ inv.id = view[s].id
        THEN /\ payments' = insertPayment(payments, nextPid + 1, amount)
             /\ nextPid' = nextPid + 1
             /\ pend' = [pend EXCEPT ![s] = "add"]
        ELSE UNCHANGED <<payments, nextPid, pend>>
  /\ UNCHANGED <<role, calcVars, numVars, noteVars, proVars, inv, edits, view>>

\* Confirming the deletion of a ledger row of the cached payment list:
\* deleteInvoicePayment removes the row; onSuccess recomputes nothing, both
\* queries are refetched
DeletePayment(s, k) ==
  /\ pend[s] = "idle"
  /\ view[s] # NoView
  /\ canEdit(s)
  /\ k \in 1..Len(view[s].payments)
  /\ payments' = removePayment(payments, view[s].payments[k].id)
  /\ view' = [view EXCEPT ![s] = Snapshot(inv, payments')]
  /\ UNCHANGED <<role, calcVars, numVars, noteVars, proVars, inv, nextPid, edits, pend>>

\* The second write of addInvoicePayment, the recomputation of the invoice's
\* aggregates, followed by onSuccess: both queries are refetched
FinishPayment(s) ==
  /\ pend[s] = "add"
  /\ inv' = IF inv # NoInv /\ inv.id = view[s].id
            THEN recomputeAggregates(inv, payments) ELSE inv
  /\ pend' = [pend EXCEPT ![s] = "idle"]
  /\ view' = [view EXCEPT ![s] = Snapshot(inv', payments)]
  /\ UNCHANGED <<role, calcVars, numVars, noteVars, proVars, payments, nextPid, edits>>

\* A status mutation of the detail page against the stored row, then onSuccess
StatusUpdate(s, data) ==
  /\ pend[s] = "idle"
  /\ inv' = IF inv # NoInv /\ inv.id = view[s].id
            THEN updateFinalInvoice(inv, data) ELSE inv
  /\ view' = [view EXCEPT ![s] = Snapshot(inv', payments)]
  /\ UNCHANGED <<role, calcVars, numVars, noteVars, proVars, payments, nextPid, pend>>

\* "Marquer comme payé"
MarkPaid(s) ==
  /\ view[s] # NoView
  /\ canMarkPaid(s)
  /\ StatusUpdate(s, markPaidData(view[s]))
  /\ UNCHANGED edits

\* "Annuler la facture"
CancelInvoice(s) ==
  /\ view[s] # NoView
  /\ canCancel(s)
  /\ StatusUpdate(s, handleUpdateStatus(view[s], "cancelled"))
  /\ UNCHANGED edits

\* "Revenir à l'impayé"
RevertToUnpaid(s) ==
  /\ view[s] # NoView
  /\ canRevert(s)
  /\ StatusUpdate(s, handleUpdateStatus(view[s], "unpaid"))
  /\ UNCHANGED edits

\* The edit form of the invoice: "Modifier la facture", pick a status, save
EditInvoice(s, st) ==
  /\ view[s] # NoView
  /\ canOpenEdit(s)
  /\ st # view[s].status
  /\ edits < MaxEdits
  /\ edits' = edits + 1
  /\ StatusUpdate(s, [status |-> st])

\* "Supprimer": deleteInvoiceMutation, then navigate to the list
DeleteInvoice(s) ==
  /\ pend[s] = "idle"
  /\ view[s] # NoView
  /\ canDelete(s)
  /\ IF inv # NoInv /\ inv.id = view[s].id
     THEN inv' = NoInv /\ payments' = <<>>
     ELSE UNCHANGED <<inv, payments>>
  /\ view' = [view EXCEPT ![s] = NoView]
  /\ UNCHANGED <<role, calcVars, numVars, noteVars, proVars, nextPid, edits, pend>>

Next ==
  \/ \E s \in Sessions : Refetch(s)
  \/ \E s \in Sessions, e \in Entered \cup {Untouched} : SubmitPayment(s, e)
  \/ \E s \in Sessions, k \in 1..MaxPayments : DeletePayment(s, k)
  \/ \E s \in Sessions : FinishPayment(s)
  \/ \E s \in Sessions : MarkPaid(s)
  \/ \E s \in Sessions : CancelInvoice(s)
  \/ \E s \in Sessions : RevertToUnpaid(s)
  \/ \E s \in Sessions, st \in FinalStatuses : EditInvoice(s, st)
  \/ \E s \in Sessions : DeleteInvoice(s)

Spec == Init /\ [][Next]_vars

\* The detail page in view mode, the edit route never opened: payments are
\* added and deleted and the status buttons are used.
NextView ==
  \/ \E s \in Sessions : Refetch(s)
  \/ \E s \in Sessions, e \in Entered \cup {Untouched} : SubmitPayment(s, e)
  \/ \E s \in Sessions, k \in 1..MaxPayments : DeletePayment(s, k)
  \/ \E s \in Sessions : FinishPayment(s)
  \/ \E s \in Sessions : MarkPaid(s)
  \/ \E s \in Sessions : CancelInvoice(s)
  \/ \E s \in Sessions : RevertToUnpaid(s)
  \/ \E s \in Sessions : DeleteInvoice(s)

SpecView == Init /\ [][NextView]_vars

\* The detail page and its edit route, the delete button of the payment
\* history never used.
NextEdit ==
  \/ \E s \in Sessions : Refetch(s)
  \/ \E s \in Sessions, e \in Entered \cup {Untouched} : SubmitPayment(s, e)
  \/ \E s \in Sessions : FinishPayment(s)
  \/ \E s \in Sessions : MarkPaid(s)
  \/ \E s \in Sessions : CancelInvoice(s)
  \/ \E s \in Sessions : RevertToUnpaid(s)
  \/ \E s \in Sessions, st \in FinalStatuses : EditInvoice(s, st)
  \/ \E s \in Sessions : DeleteInvoice(s)

SpecEdit == Init /\ [][NextEdit]_vars

\* ---------------------------------------------------------------- ledger
\* One session adding payments to a fresh invoice, one after another.
LedgerTotals == {5, 20, 30, 1000, 1000000}
LedgerValues == {4, 10, 50, 400, 400000, 600000}
LedgerEntered ==
  {[nan |-> TRUE, v |-> 0], Untouched} \cup {[nan |-> FALSE, v |-> x] : x \in LedgerValues}

InitLedger ==
  /\ role = [s \in Sessions |-> IF s = "s1" THEN "accountant" ELSE "viewer"]
  /\ \E t \in LedgerTotals : inv = invoiceData(t)
  /\ payments = <<>>
  /\ nextPid = 0
  /\ edits = 0
  /\ view = [s \in Sessions |-> NoView]
  /\ pend = [s \in Sessions |-> "idle"]
  /\ pro = NoProforma
  /\ finals = {}
  /\ nextFinal = 0
  /\ pview = [s \in Sessions |-> NoProforma]
  /\ undone = {}
  /\ actor = "s1"
  /\ form = NoForm
  /\ totals = NoTotals
  /\ doc = NoDoc
  /\ saving = NotSaving
  /\ seq = 0
  /\ pool = <<>>
  /\ issued = <<>>
  /\ gen = [s \in Sessions |-> NoRequest]
  /\ note = NoNote
  /\ nview = [s \in Sessions |-> NoNote]

NextLedger ==
  \/ Refetch("s1")
  \/ \E e \in LedgerEntered : SubmitPayment("s1", e)
  \/ FinishPayment("s1")

SpecLedger == InitLedger /\ [][NextLedger]_vars

\* ================================================================ proforma
\* The proforma detail page, the conversion to a final invoice and the
\* new-final-invoice form opened with a proformaId.
ProLogins == [Sessions -> {"admin", "accountant", "viewer"}]
\* the total of the proforma, and the amounts paid on its final invoices
ProformaTotal == 20
PaidAmounts == {10, 20}

canApprove(s) == checkPermission(s, {"admin"})
canConvert(s) == checkPermission(s, {"admin"})

\* updateProformaInvoice(id, {status}): no row is touched once it is deleted
updateProformaStatus(p, st) ==
  IF p = NoProforma THEN p ELSE [p EXCEPT !.status = st]

\* The guards of the action buttons of the proforma page, on the cached row
canOpenEditProforma(s) == canEdit(s) /\ pview[s].status \in {"draft", "sent"}
canMarkSent(s) == pview[s].status = "draft"
canApproveOrReject(s) == pview[s].status = "sent" /\ canApprove(s)
canOfferConvert(s) ==
  pview[s].status = "approved" /\ pview[s].finalInvoiceId = 0 /\ canConvert(s)
canUnapprove(s) == pview[s].status = "approved" /\ canApprove(s)
\* canUndoConversion refusing a final invoice that has payments
canUndoConversion_UnpaidOnly(s) ==
  /\ pview[s].finalInvoiceId # 0 /\ canConvert(s)
  /\ \A f \in finals : f.id = pview[s].finalInvoiceId => f.payments = <<>>

canUndoConversion(s) == pview[s].finalInvoiceId # 0 /\ canConvert(s)
canDeleteProforma(s) == canEdit(s) /\ pview[s].status = "draft"

\* The final invoice a conversion produces: unpaid, nothing paid, the whole
\* total owed, linked back to the proforma
convertedInvoice(fid) ==
  [id |-> fid, status |-> "unpaid", total |-> ProformaTotal, amount_paid |-> 0,
   client_debt |-> ProformaTotal, proformaId |-> 1, from |-> 1, payments |-> <<>>]

\* mockDataService.convertProformaToFinal: allowed only for an approved
\* proforma that has no final invoice; creates the unpaid final invoice and
\* links it both ways
convertProformaToFinal(p, fs, fid) ==
  IF p = NoProforma \/ p.status # "approved" \/ p.finalInvoiceId # 0
  THEN [ok |-> FALSE, pro |-> p, finals |-> fs]
  ELSE [ok |-> TRUE,
        pro |-> [p EXCEPT !.finalInvoiceId = fid],
        finals |-> fs \cup {convertedInvoice(fid)}]

\* undoProformaConversion(id, finalInvoiceId): deletes that final invoice,
\* clears the link and returns the proforma to approved
undoProformaConversion(p, fs, fid) ==
  IF p = NoProforma THEN [pro |-> p, finals |-> fs]
  ELSE [pro |-> [p EXCEPT !.finalInvoiceId = 0, !.status = "approved"],
        finals |-> {f \in fs : f.id # fid}]

\* createInvoiceMutation of the form prefilled from the proforma: the new
\* row carries no proformaId (from records which proforma prefilled the form)
createFinalInvoice(fs, fid) ==
  fs \cup {[invoiceData(ProformaTotal) EXCEPT !.id = fid]
            @@ [proformaId |-> 0, from |-> 1, payments |-> <<>>]}

InitProforma ==
  /\ role \in ProLogins
  /\ inv = NoInv
  /\ payments = <<>>
  /\ nextPid = 0
  /\ edits = 0
  /\ view = [s \in Sessions |-> NoView]
  /\ pend = [s \in Sessions |-> "idle"]
  /\ pro = [status |-> "draft", finalInvoiceId |-> 0]
  /\ finals = {}
  /\ nextFinal = 0
  /\ pview = [s \in Sessions |-> NoProforma]
  /\ undone = {}
  /\ actor = "s1"
  /\ form = NoForm
  /\ totals = NoTotals
  /\ doc = NoDoc
  /\ saving = NotSaving
  /\ seq = 0
  /\ pool = <<>>
  /\ issued = <<>>
  /\ gen = [s \in Sessions |-> NoRequest]
  /\ note = NoNote
  /\ nview = [s \in Sessions |-> NoNote]

\* Opening the proforma page, or any refetch of its query
RefetchProforma(s) ==
  /\ pview[s] # pro
  /\ pview' = [pview EXCEPT ![s] = pro]
  /\ actor' = s
  /\ UNCHANGED <<role, calcVars, numVars, noteVars, payVars, pro, finals, nextFinal, undone>>

\* statusUpdateMutation, then the refetch its onSuccess triggers
SetProformaStatus(s, st) ==
  /\ pro' = updateProformaStatus(pro, st)
  /\ pview' = [pview EXCEPT ![s] = pro']
  /\ actor' = s
  /\ UNCHANGED <<role, calcVars, numVars, noteVars, payVars, finals, nextFinal, undone>>

\* "Marquer comme envoyé"
MarkSent(s) == pview[s] # NoProforma /\ canMarkSent(s) /\ SetProformaStatus(s, "sent")

\* "Approuver"
Approve(s) == pview[s] # NoProforma /\ canApproveOrReject(s) /\ SetProformaStatus(s, "approved")

\* "Rejeter"
Reject(s) == pview[s] # NoProforma /\ canApproveOrReject(s) /\ SetProformaStatus(s, "rejected")

\* "Annuler l'approbation"
Unapprove(s) == pview[s] # NoProforma /\ canUnapprove(s) /\ SetProformaStatus(s, "sent")

\* The edit form of the proforma: "Editer le proforma", pick a status, save
EditProforma(s, st) ==
  /\ pview[s] # NoProforma
  /\ canOpenEditProforma(s)
  /\ SetProformaStatus(s, st)

\* "Conversion en facture finale": convertMutation; onSuccess refetches,
\* onError leaves the cache as it is
ConvertToFinal(s) ==
  /\ pview[s] # NoProforma
  /\ canOfferConvert(s)
  /\ nextFinal < MaxFinals
  /\ LET r == convertProformaToFinal(pro, finals, nextFinal + 1) IN
     /\ pro' = r.pro
     /\ finals' = r.finals
     /\ nextFinal' = IF r.ok THEN nextFinal + 1 ELSE nextFinal
     /\ pview' = IF r.ok THEN [pview EXCEPT ![s] = r.pro] ELSE pview
  /\ actor' = s
  /\ UNCHANGED <<role, calcVars, numVars, noteVars, payVars, undone>>

\* "Annuler la conversion": undoConversionMutation, then the refetch
UndoConversion(s) ==
  /\ pview[s] # NoProforma
  /\ canUndoConversion(s)
  /\ LET r == undoProformaConversion(pro, finals, pview[s].finalInvoiceId) IN
     /\ pro' = r.pro
     /\ finals' = r.finals
     /\ pview' = [pview EXCEPT ![s] = r.pro]
     /\ undone' = undone \cup (finals \ r.finals)
  /\ actor' = s
  /\ UNCHANGED <<role, calcVars, numVars, noteVars, payVars, nextFinal>>

\* "Supprimer": deleteProformaMutation, then navigate to the list
DeleteProforma(s) ==
  /\ pview[s] # NoProforma
  /\ canDeleteProforma(s)
  /\ pro' = NoProforma
  /\ pview' = [pview EXCEPT ![s] = NoProforma]
  /\ actor' = s
  /\ UNCHANGED <<role, calcVars, numVars, noteVars, payVars, finals, nextFinal, undone>>

\* NewFinalInvoice opened with ?proformaId=: the form is prefilled from the
\* fetched proforma and submitted; createInvoiceMutation
CreateFromProforma(s) ==
  /\ canCreateFinal(s)
  /\ pro # NoProforma
  /\ nextFinal < MaxFinals
  /\ finals' = createFinalInvoice(finals, nextFinal + 1)
  /\ nextFinal' = nextFinal + 1
  /\ pview' = [pview EXCEPT ![s] = pro]
  /\ actor' = s
  /\ UNCHANGED <<role, calcVars, numVars, noteVars, payVars, pro, undone>>

\* A payment recorded on one of the final invoices from its detail page:
\* the payment form within the remaining debt, both writes of
\* addInvoicePayment completed
PayFinal(s, fid, amount) ==
  /\ canEdit(s)
  /\ \E f \in finals :
       /\ f.id = fid
       /\ f.client_debt > 0
       /\ schemaAccepts(amount) /\ amount <= f.client_debt
       /\ Len(f.payments) < MaxPayments
       /\ LET rows == insertPayment(f.payments, Len(f.payments) + 1, amount) IN
          finals' = (finals \ {f}) \cup
                      {recomputeAggregates([f EXCEPT !.payments = rows], rows)}
  /\ actor' = s
  /\ UNCHANGED <<role, calcVars, numVars, noteVars, payVars, pro, nextFinal, pview, undone>>

NextProforma ==
  \/ \E s \in Sessions : RefetchProforma(s)
  \/ \E s \in Sessions : MarkSent(s)
  \/ \E s \in Sessions : Approve(s)
  \/ \E s \in Sessions : Reject(s)
  \/ \E s \in Sessions : Unapprove(s)
  \/ \E s \in Sessions, st \in ProformaStatuses : EditProforma(s, st)
  \/ \E s \in Sessions : ConvertToFinal(s)
  \/ \E s \in Sessions : UndoConversion(s)
  \/ \E s \in Sessions : DeleteProforma(s)
  \/ \E s \in Sessions : CreateFromProforma(s)

SpecProforma == InitProforma /\ [][NextProforma]_vars

\* The proforma page together with payments on the final invoices that
\* conversions produce
NextUndo ==
  \/ \E s \in Sessions : RefetchProforma(s)
  \/ \E s \in Sessions : MarkSent(s)
  \/ \E s \in Sessions : Approve(s)
  \/ \E s \in Sessions : Reject(s)
  \/ \E s \in Sessions : Unapprove(s)
  \/ \E s \in Sessions, st \in ProformaStatuses : EditProforma(s, st)
  \/ \E s \in Sessions : ConvertToFinal(s)
  \/ \E s \in Sessions : UndoConversion(s)
  \/ \E s \in Sessions : DeleteProforma(s)
  \/ \E s \in Sessions, fid \in 1..MaxFinals, amount \in PaidAmounts : PayFinal(s, fid, amount)

SpecUndo == InitProforma /\ [][NextUndo]_vars

\* ---------------------------------------------------------------- properties
Abs(x) == IF x >= 0 THEN x ELSE 0 - x

StoredFor(s) == inv # NoInv /\ view[s] # NoView /\ inv.id = view[s].id

\* the step in which session s's payment form inserts its ledger row
SubmitStep(s) == pend[s] = "idle" /\ pend'[s] = "add"

NewRow == payments'[Len(payments')]

\* C1: after every completed add-payment or delete-payment, a final invoice
\* whose stored status is neither cancelled nor credited has
\* amount_paid + client_debt equal to total within 0.01.
C1_PaidPlusDebtIsTotal ==
  [][(/\ \/ \E s \in Sessions : pend[s] = "add" /\ pend'[s] = "idle"
         \/ \E s \in Sessions, k \in 1..MaxPayments : DeletePayment(s, k)
      /\ inv' # NoInv
      /\ inv'.status \notin {"cancelled", "credited"})
       => Abs(inv'.amount_paid + inv'.client_debt - inv'.total) <= 10]_vars

\* C4: for an invoice whose stored status is cancelled or credited, the
\* status the page displays equals the stored status, whatever amount_paid
\* and total are.
C4_CancelledCreditedSticky ==
  \A s \in Sessions :
    (view[s] # NoView /\ view[s].status \in {"cancelled", "credited"})
      => viewStatus(s) = view[s].status

\* C7: the clamp of the payment form is a check against the submitting
\* session's cached remaining debt only: every submitted row is positive, at
\* most that cached debt rounded to 2 decimals, and is appended to the ledger
\* whatever the stored invoice and ledger say by then.  (With the witness:
\* two sessions that read the same debt both pass, and the ledger sum
\* exceeds the total.)
C7_ClampAgainstCachedDebt ==
  [][\A s \in Sessions :
       SubmitStep(s) =>
         /\ Len(payments') = Len(payments) + 1
         /\ SubSeq(payments', 1, Len(payments)) = payments
         /\ NewRow.amount > 0
         /\ NewRow.amount <= Round2(paymentSummary(view[s]).clientDebt)]_vars

\* C7 witness: both sessions paid the whole debt of 0.02 they had read, both
\* operations completed, and the ledger holds twice the total.
C7_Overpaid ==
  /\ inv # NoInv /\ inv.total = 20
  /\ Len(payments) = 2
  /\ \A k \in 1..Len(payments) : payments[k].amount = 20
  /\ \A s \in Sessions : pend[s] = "idle"
  /\ inv.amount_paid = 40

\* C8: every payment submitted through the form is strictly positive and not
\* greater than the remaining debt the form shows.
C8_SubmittedWithinDebt ==
  [][\A s \in Sessions :
       SubmitStep(s) =>
         /\ NewRow.amount > 0
         /\ NewRow.amount <= paymentSummary(view[s]).clientDebt]_vars

\* C9: a mark_paid that reaches the stored invoice leaves amount_paid = total,
\* client_debt = 0 and status paid; on an invoice that is already paid in
\* full it changes nothing, so amount_paid never exceeds total through it.
C9_MarkPaidSetsTotal ==
  [][\A s \in Sessions :
       (MarkPaid(s) /\ StoredFor(s)) =>
         /\ inv'.amount_paid = inv'.total
         /\ inv'.client_debt = 0
         /\ inv'.status = "paid"
         /\ inv'.total = inv.total
         /\ (inv.status = "paid" /\ inv.amount_paid = inv.total /\ inv.client_debt = 0)
              => inv' = inv]_vars

\* C9 witness: the invoice was marked paid (no ledger row accounts for the
\* amount) while another session still shows it unpaid and offers mark_paid.
C9_PaidAndOfferedAgain ==
  /\ inv # NoInv /\ inv.status = "paid" /\ payments = <<>>
  /\ inv.amount_paid = inv.total /\ inv.client_debt = 0
  /\ \E s \in Sessions : StoredFor(s) /\ canMarkPaid(s) /\ pend[s] = "idle"

LinkedFinals == {f \in finals : f.proformaId = 1}

\* C2: converting the same proforma twice never creates two final invoices:
\* in every reachable state at most one final invoice carries the
\* proforma's id, and a conversion attempted when the proforma already has
\* a final invoice changes nothing.
C2_AtMostOneFinalPerProforma ==
  /\ [](Cardinality(LinkedFinals) <= 1)
  /\ [][\A s \in Sessions :
          (ConvertToFinal(s) /\ pro.finalInvoiceId # 0)
            => (finals' = finals /\ pro' = pro)]_vars

\* C3: a final invoice is created from the proforma only when the proforma
\* is approved and has no final invoice, on the convert action and on the
\* form opened with the proformaId alike.
C3_CreatedOnlyFromApproved ==
  [][\A f \in finals' \ finals :
       f.from = 1 => (pro.status = "approved" /\ pro.finalInvoiceId = 0)]_vars

\* C5: the stored status becomes approved or rejected only through an
\* operation of a user who holds the admin role.
C5_ApprovalNeedsAdmin ==
  [][(pro' # NoProforma /\ pro'.status # pro.status
        /\ pro'.status \in {"approved", "rejected"})
       => role[actor'] = "admin"]_vars

AllowedMoves ==
  {<<"draft", "sent">>, <<"sent", "approved">>, <<"sent", "rejected">>,
   <<"approved", "sent">>}

\* C6: the stored status of a proforma changes only along draft->sent,
\* sent->approved, sent->rejected and approved->sent.
C6_OnlyAllowedMoves ==
  [][(pro' # NoProforma /\ pro'.status # pro.status)
       => <<pro.status, pro'.status>> \in AllowedMoves]_vars
\* C11: reverting to unpaid when ledger payments exist leaves the ledger
\* unchanged, stores status unpaid, amount_paid = the sum of the ledger
\* payments and client_debt = max(0, total - that sum).
C11_RevertKeepsLedgerSum ==
  [][\A s \in Sessions :
       (RevertToUnpaid(s) /\ StoredFor(s) /\ payments # <<>>) =>
         /\ payments' = payments
         /\ inv'.status = "unpaid"
         /\ inv'.amount_paid = totalPaidOf(payments)
         /\ inv'.client_debt = Max(0, inv.total - totalPaidOf(payments))]_vars

\* C12 (as stated): reverting to unpaid when no ledger payments exist sets
\* both amount_paid and client_debt to zero.
C12_RevertZeroesBoth ==
  [][\A s \in Sessions :
       (RevertToUnpaid(s) /\ StoredFor(s) /\ payments = <<>>) =>
         (inv'.amount_paid = 0 /\ inv'.client_debt = 0)]_vars

\* C12 (amended): reverting to unpaid from a page whose cached payment list
\* is empty stores status unpaid, amount_paid = 0 and client_debt = total.
C12_RevertResetsToTotal ==
  [][\A s \in Sessions :
       (RevertToUnpaid(s) /\ StoredFor(s) /\ view[s].payments = <<>>) =>
         /\ inv'.status = "unpaid"
         /\ inv'.amount_paid = 0
         /\ inv'.client_debt = inv.total
         /\ inv'.total = inv.total
         /\ payments' = payments]_vars

\* C12 witness: an invoice that had been marked paid or cancelled without
\* any payment has been reverted: it is stored unpaid with the whole total
\* as debt, and no edit form was involved.
C12_RevertedWithoutPayments ==
  /\ inv # NoInv /\ inv.status = "unpaid" /\ edits = 0
  /\ nextPid = 0 /\ inv.amount_paid = 0 /\ inv.client_debt = inv.total
\* C13: once a payment deletion has completed, the stored amount_paid equals
\* the sum of the remaining ledger payments and the status the page displays
\* is the one that sum gives.
C13_DeleteRecomputesAggregates ==
  [][\A s \in Sessions, k \in 1..MaxPayments :
       (DeletePayment(s, k) /\ StoredFor(s)) =>
         /\ inv'.amount_paid = totalPaidOf(payments')
         /\ viewStatus(s)' =
              computedStatus(inv'.status, totalPaidOf(payments'), inv'.total)]_vars
\* C14: in a single session that only adds payments to a fresh invoice, each
\* completed before the next and the payments together within the total,
\* after every completed payment amount_paid is the sum of the payments,
\* client_debt is total - amount_paid, and the page displays partially_paid
\* while 0 < amount_paid < total and paid once amount_paid = total.
C14_SequentialPaymentsAddUp ==
  [][(FinishPayment("s1") /\ totalPaidOf(payments) <= inv.total) =>
       /\ inv'.amount_paid = totalPaidOf(payments)
       /\ inv'.client_debt = inv.total - inv'.amount_paid
       /\ inv'.total = inv.total
       /\ (0 < inv'.amount_paid /\ inv'.amount_paid < inv.total)
            => viewStatus("s1")' = "partially_paid"
       /\ inv'.amount_paid = inv.total => viewStatus("s1")' = "paid"]_vars

\* C14 witness: total 1000, payments of 400 then 600 completed: 1000 paid,
\* no debt left, displayed paid.
C14_Paid400Then600 ==
  /\ inv # NoInv /\ inv.total = 1000000
  /\ Len(payments) = 2
  /\ payments[1].amount = 400000 /\ payments[2].amount = 600000
  /\ pend["s1"] = "idle"
  /\ inv.amount_paid = 1000000 /\ inv.client_debt = 0
  /\ view["s1"] # NoView /\ viewStatus("s1") = "paid"
\* C15: undoConversion on a proforma that has a final invoice deletes that
\* final invoice and nothing else, clears finalInvoiceId and leaves the
\* proforma approved, whatever its status was; after a conversion this
\* restores the proforma and the set of final invoices of before.
C15_UndoRemovesLinkedFinal ==
  [][\A s \in Sessions :
       (UndoConversion(s) /\ pro # NoProforma /\ pro.finalInvoiceId # 0) =>
         /\ pro' = [status |-> "approved", finalInvoiceId |-> 0]
         /\ finals' = {f \in finals : f.id # pro.finalInvoiceId}]_vars
\* C16: undoConversion is offered and proceeds whenever the page shows a
\* finalInvoiceId and the user may convert, whatever the payment state of
\* that final invoice, and it deletes the invoice, paid or not.
C16_UndoIgnoresPayments ==
  /\ [](\A s \in Sessions :
          (pview[s] # NoProforma /\ pview[s].finalInvoiceId # 0 /\ canConvert(s))
            => ENABLED UndoConversion(s))
  /\ [][\A s \in Sessions :
          (UndoConversion(s) /\ pro # NoProforma)
            => \A f \in finals : f.id = pview[s].finalInvoiceId => f \notin finals']_vars

\* C16 witness: a final invoice with ledger payments and a paid or
\* partially_paid status has been deleted by undoConversion.
C16_PaidInvoiceUndone ==
  \E f \in undone :
    f.payments # <<>> /\ f.status \in {"paid", "partially_paid"} /\ f \notin finals
\* the final invoices a step creates
NewFinals == {f \in finals' : \A g \in finals : g.id # f.id}

\* C17: every newly created final invoice has status unpaid, amount_paid = 0
\* and client_debt = total, and one created by a conversion has its id
\* stored as the proforma's finalInvoiceId.
C17_NewInvoiceStartsUnpaid ==
  [][\A f \in NewFinals :
       /\ f.status = "unpaid"
       /\ f.amount_paid = 0
       /\ f.client_debt = f.total
       /\ f.proformaId # 0 => pro'.finalInvoiceId = f.id]_vars
\* ------------------------------------------------------------ calculator
\* The item and invoice totals of the new-final-invoice form and of the
\* proforma edit form.  Amounts of this section are integers of centimes
\* (1 DZD = 100); quantities, tax rates and discounts are the numbers typed.
\* The code computes in doubles; here a product of an amount and a rate is
\* cut to the centime, which is exact on all but the odd prices of the
\* catalogue and never a centime away from the double.
MaxItems == 1
Quantities == {1, 10}
Discounts == {0, 10}
PaymentTypes == {"cash", "cheque"}
\* the product catalogue: prices around the stamp-duty thresholds, and a
\* product of five dinars
Products ==
  { [id |-> 1, unitprice |-> 10000,    taxrate |-> 19],
    [id |-> 2, unitprice |-> 30000,    taxrate |-> 19],
    [id |-> 3, unitprice |-> 30100,    taxrate |-> 9],
    [id |-> 4, unitprice |-> 3000000,  taxrate |-> 19],
    [id |-> 5, unitprice |-> 3000200,  taxrate |-> 0],
    [id |-> 6, unitprice |-> 10000000, taxrate |-> 19],
    [id |-> 7, unitprice |-> 10000100, taxrate |-> 9],
    [id |-> 8, unitprice |-> 15000000, taxrate |-> 19],
    [id |-> 9, unitprice |-> 500,      taxrate |-> 19] }

\* x * p / 100, evaluated without leaving 32 bits
Pct(x, p) == (x \div 100) * p + ((x % 100) * p) \div 100
\* x * r / 1000, evaluated without leaving 32 bits
PerMille(x, r) == (x \div 1000) * r + ((x % 1000) * r) \div 1000

RECURSIVE Sum(_)
Sum(q) == IF q = <<>> THEN 0 ELSE Head(q) + Sum(Tail(q))

\* calculateStampTax of the proforma page, with >= for > in its tiers
calculateStampTax_Inclusive(paymentType, subtotal) ==
  IF paymentType # "cash" THEN 0
  ELSE IF subtotal >= 10000000 THEN PerMille(subtotal, 20)
  ELSE IF subtotal >= 3000000 THEN PerMille(subtotal, 15)
  ELSE IF subtotal >= 30000 THEN PerMille(subtotal, 10)
  ELSE 0
\* calculateStampTax of the proforma page
calculateStampTax(paymentType, subtotal) ==
  IF paymentType # "cash" THEN 0
  ELSE IF subtotal > 10000000 THEN PerMille(subtotal, 20)
  ELSE IF subtotal > 3000000 THEN PerMille(subtotal, 15)
  ELSE IF subtotal > 30000 THEN PerMille(subtotal, 10)
  ELSE 0
\* calculateStampTax of the new-final-invoice page
NewFinalInvoice_calculateStampTax(paymentType, subtotal) ==
  IF paymentType # "cash" THEN 0
  ELSE IF subtotal > 10000000 THEN PerMille(subtotal, 20)
  ELSE IF subtotal > 3000000 THEN PerMille(subtotal, 15)
  ELSE IF subtotal > 30000 THEN PerMille(subtotal, 10)
  ELSE 0
\* the columns of a sequence of records
Column(items, f) == [i \in 1..Len(items) |-> items[i][f]]
\* splice(index, 1)
Splice(items, index) == [i \in 1..(Len(items) - 1) |-> IF i < index THEN items[i] ELSE items[i + 1]]

\* ---- new-final-invoice page
\* the item appended by addItem: no product yet
NewFinalInvoice_newItem == [productId |-> 0, quantity |-> 1, unitprice |-> 0, taxrate |-> 19, discount |-> 0]

NewFinalInvoice_updateItemProduct(item, product) ==
  [item EXCEPT !.productId = product.id, !.unitprice = product.unitprice, !.taxrate = product.taxrate]

\* calculatedItems of createInvoiceMutation, with the tax taken on the
\* amount before discount
calculatedItem_TaxOnGross(item) ==
  LET totalExcl == Pct(item.quantity * item.unitprice, 100 - item.discount)
      totalTax == Pct(item.quantity * item.unitprice, item.taxrate)
  IN  [productId |-> item.productId, quantity |-> item.quantity,
       unitprice |-> item.unitprice, taxrate |-> item.taxrate,
       discount |-> item.discount, totalExcl |-> totalExcl,
       totalTax |-> totalTax, total |-> totalExcl + totalTax]
\* one element of calculatedItems of createInvoiceMutation: the discount is
\* a percentage
calculatedItem(item) ==
  LET totalExcl == Pct(item.quantity * item.unitprice, 100 - item.discount)
      totalTax == Pct(totalExcl, item.taxrate)
  IN  [productId |-> item.productId, quantity |-> item.quantity,
       unitprice |-> item.unitprice, taxrate |-> item.taxrate,
       discount |-> item.discount, totalExcl |-> totalExcl,
       totalTax |-> totalTax, total |-> totalExcl + totalTax]

\* calculateTotals of the new-final-invoice page, leaving the stamp duty
\* out of the total
NewFinalInvoice_calculateTotals_NoStamp(items, paymentType) ==
  LET excl == [i \in 1..Len(items) |->
                 Pct(items[i].quantity * items[i].unitprice, 100 - items[i].discount)]
      subtotal == Sum(excl)
      taxTotal == Sum([i \in 1..Len(items) |-> Pct(excl[i], items[i].taxrate)])
      stampTax == NewFinalInvoice_calculateStampTax(paymentType, subtotal)
  IN  [subtotal |-> subtotal, taxTotal |-> taxTotal, stampTax |-> stampTax,
       total |-> subtotal + taxTotal]
\* calculateTotals of the new-final-invoice page: every item counts
NewFinalInvoice_calculateTotals(items, paymentType) ==
  LET excl == [i \in 1..Len(items) |->
                 Pct(items[i].quantity * items[i].unitprice, 100 - items[i].discount)]
      subtotal == Sum(excl)
      taxTotal == Sum([i \in 1..Len(items) |-> Pct(excl[i], items[i].taxrate)])
      stampTax == NewFinalInvoice_calculateStampTax(paymentType, subtotal)
  IN  [subtotal |-> subtotal, taxTotal |-> taxTotal, stampTax |-> stampTax,
       total |-> subtotal + taxTotal + stampTax]

\* invoiceItemSchema and finalInvoiceSchema
finalInvoiceSchema(f) ==
  /\ Len(f.items) >= 1
  /\ \A i \in 1..Len(f.items) :
       /\ f.items[i].productId # 0
       /\ f.items[i].quantity >= 1
       /\ f.items[i].unitprice >= 0
       /\ f.items[i].taxrate >= 0 /\ f.items[i].taxrate <= 100
       /\ f.items[i].discount >= 0 /\ f.items[i].discount <= 100

\* the invoice createInvoiceMutation persists
createInvoiceData(f) ==
  LET calculatedItems == [i \in 1..Len(f.items) |-> calculatedItem(f.items[i])]
      subtotal == Sum(Column(calculatedItems, "totalExcl"))
      taxTotal == Sum(Column(calculatedItems, "totalTax"))
      stampTax == NewFinalInvoice_calculateStampTax(f.payment_type, subtotal)
      total == subtotal + taxTotal + stampTax
  IN  [page |-> "new-final", items |-> calculatedItems, subtotal |-> subtotal,
       taxTotal |-> taxTotal, stampTax |-> stampTax, total |-> total,
       payment_type |-> f.payment_type, status |-> "NonPayé",
       amount_paid |-> 0, client_debt |-> total]

\* ---- proforma edit form
\* the item appended by addItem: no product yet
newItem ==
  [productId |-> 0, quantity |-> 1, unitprice |-> 0, taxrate |-> 0, discount |-> 0,
   totalExcl |-> 0, totalTax |-> 0, total |-> 0]

\* updateItemProduct: the discount is a percentage here
updateItemProduct(item, product) ==
  LET excl == Pct(item.quantity * product.unitprice, 100 - item.discount)
  IN  [item EXCEPT !.productId = product.id, !.unitprice = product.unitprice,
                   !.taxrate = product.taxrate, !.totalExcl = excl,
                   !.totalTax = Pct(excl, product.taxrate),
                   !.total = Pct(excl, 100 + product.taxrate)]

\* calculateTotals of the proforma page: items without a product are
\* skipped and the discount is an amount in dinars
calculateTotals(items, paymentType) ==
  LET counted(i) == items[i].productId # 0
      itemSubtotal(i) == items[i].quantity * items[i].unitprice - 100 * items[i].discount
      subtotal == Sum([i \in 1..Len(items) |-> IF counted(i) THEN itemSubtotal(i) ELSE 0])
      taxTotal == Sum([i \in 1..Len(items) |->
                         IF counted(i) THEN Pct(itemSubtotal(i), items[i].taxrate) ELSE 0])
      totalDiscount == Sum([i \in 1..Len(items) |->
                              IF counted(i) THEN items[i].discount ELSE 0])
      stampTax == calculateStampTax(paymentType, subtotal)
  IN  [totaldiscount |-> totalDiscount, subtotal |-> subtotal, taxTotal |-> taxTotal,
       stampTax |-> stampTax, total |-> subtotal + taxTotal + stampTax]

\* one element of processedItems of updateProformaMutation: the discount is
\* an amount in dinars
processedItem(item) ==
  LET totalExcl == item.quantity * item.unitprice - 100 * item.discount
      totalTax == Pct(totalExcl, item.taxrate)
  IN  [tdiscount |-> item.discount] @@
      [item EXCEPT !.totalExcl = totalExcl, !.totalTax = totalTax,
                   !.total = totalExcl + totalTax]

\* proformaFormSchema
proformaFormSchema(f) ==
  /\ Len(f.items) >= 1
  /\ \A i \in 1..Len(f.items) :
       /\ f.items[i].productId # 0
       /\ f.items[i].quantity >= 1
       /\ f.items[i].unitprice >= 0
       /\ f.items[i].taxrate >= 0
       /\ f.items[i].discount >= 0 /\ f.items[i].discount <= 100

\* the proforma updateProformaMutation persists
updateProformaData(f) ==
  LET processedItems == [i \in 1..Len(f.items) |-> processedItem(f.items[i])]
      subtotal == Sum(Column(processedItems, "totalExcl"))
      taxTotal == Sum(Column(processedItems, "totalTax"))
      stampTax == calculateStampTax(f.payment_type, subtotal)
  IN  [page |-> "proforma", items |-> processedItems,
       totaldiscount |-> Sum(Column(processedItems, "tdiscount")),
       subtotal |-> subtotal, taxTotal |-> taxTotal, stampTax |-> stampTax,
       total |-> subtotal + taxTotal + stampTax, payment_type |-> f.payment_type]
\* ---- the two forms as one state machine
Pages == {"new-final", "proforma"}
\* what the page of form f displays after a change of the form
Displayed(f) ==
  IF f.page = "proforma" THEN calculateTotals(f.items, f.payment_type)
  ELSE NewFinalInvoice_calculateTotals(f.items, f.payment_type)

\* the form the proforma edit page opens on proforma p: defaultValues
proformaForm(p) ==
  [page |-> "proforma", payment_type |-> p.payment_type,
   items |-> [i \in 1..Len(p.items) |->
                [f \in DOMAIN p.items[i] \ {"tdiscount"} |-> p.items[i][f]]]]
\* the proformas found in the datastore when the edit page opens: the
\* ten-unit order of the first product, paid cash or by cheque
StoredProformas ==
  { updateProformaData([page |-> "proforma", payment_type |-> pt,
                        items |-> <<[updateItemProduct(newItem, p) EXCEPT !.quantity = 10]>>])
      : pt \in PaymentTypes, p \in {q \in Products : q.id = 1} }

InitCalc ==
  /\ role = [s \in Sessions |-> "admin"]
  /\ inv = NoInv
  /\ payments = <<>>
  /\ nextPid = 0
  /\ edits = 0
  /\ view = [s \in Sessions |-> NoView]
  /\ pend = [s \in Sessions |-> "idle"]
  /\ pro = NoProforma
  /\ finals = {}
  /\ nextFinal = 0
  /\ pview = [s \in Sessions |-> NoProforma]
  /\ undone = {}
  /\ actor = "s1"
  /\ \/ /\ doc = NoDoc
        /\ form = [page |-> "new-final", payment_type |-> "", items |-> <<>>]
     \/ /\ doc \in StoredProformas
        /\ form = proformaForm(doc)
  /\ totals = Displayed(form)
  /\ saving = NotSaving
  /\ seq = 0
  /\ pool = <<>>
  /\ issued = <<>>
  /\ gen = [s \in Sessions |-> NoRequest]
  /\ note = NoNote
  /\ nview = [s \in Sessions |-> NoNote]

\* a change of the open form, followed by the page's calculateTotals
ChangeForm(f) ==
  /\ saving = NotSaving
  /\ form' = f
  /\ totals' = Displayed(f)
  /\ UNCHANGED <<role, numVars, noteVars, payVars, proVars, doc, saving>>

addItem ==
  /\ form # NoForm
  /\ Len(form.items) < MaxItems
  /\ ChangeForm([form EXCEPT !.items =
                   Append(@, IF form.page = "proforma" THEN newItem
                             ELSE NewFinalInvoice_newItem)])

removeItem(index) ==
  /\ form # NoForm
  /\ index \in 1..Len(form.items)
  /\ ChangeForm([form EXCEPT !.items = Splice(@, index)])

SelectProduct(index, product) ==
  /\ form # NoForm
  /\ index \in 1..Len(form.items)
  /\ ChangeForm([form EXCEPT !.items[index] =
                   IF form.page = "proforma" THEN updateItemProduct(@, product)
                   ELSE NewFinalInvoice_updateItemProduct(@, product)])

\* typing in the quantity field of an item
SetQuantity(index, q) ==
  /\ form # NoForm
  /\ index \in 1..Len(form.items)
  /\ form.items[index].quantity # q
  /\ ChangeForm([form EXCEPT !.items[index].quantity = q])

\* typing in the discount field of an item
SetDiscount(index, d) ==
  /\ form # NoForm
  /\ index \in 1..Len(form.items)
  /\ form.items[index].discount # d
  /\ ChangeForm([form EXCEPT !.items[index].discount = d])

\* choosing the payment type
SetPaymentType(pt) ==
  /\ form # NoForm
  /\ form.payment_type # pt
  /\ ChangeForm([form EXCEPT !.payment_type = pt])

\* onSubmit of the new-final-invoice form: the invoice is created and the
\* page is left
CreateInvoice ==
  /\ form # NoForm
  /\ form.page = "new-final"
  /\ finalInvoiceSchema(form)
  /\ doc' = createInvoiceData(form)
  /\ form' = NoForm
  /\ totals' = NoTotals
  /\ UNCHANGED <<role, numVars, noteVars, payVars, proVars, saving>>

\* updateProformaInvoice(id, data): the row takes the fields of data
updateProformaInvoice(row, data) ==
  [f \in DOMAIN row |-> IF f \in DOMAIN data THEN data[f] ELSE row[f]]

\* onSubmit of the proforma edit form: updateProformaMutation starts and
\* its first write stores the header fields
SaveProforma ==
  /\ form # NoForm
  /\ form.page = "proforma"
  /\ saving = NotSaving
  /\ proformaFormSchema(form)
  /\ doc' = updateProformaInvoice(doc, [payment_type |-> form.payment_type])
  /\ saving' = [step |-> "totals", before |-> doc]
  /\ UNCHANGED <<role, numVars, noteVars, payVars, proVars, form, totals>>

\* the second write of updateProformaMutation stores the calculated totals
SaveTotals ==
  /\ saving.step = "totals"
  /\ LET d == updateProformaData(form)
     IN  doc' = updateProformaInvoice(doc,
                  [totaldiscount |-> d.totaldiscount, subtotal |-> d.subtotal,
                   taxTotal |-> d.taxTotal, stampTax |-> d.stampTax, total |-> d.total])
  /\ saving' = [saving EXCEPT !.step = "items"]
  /\ UNCHANGED <<role, numVars, noteVars, payVars, proVars, form, totals>>

\* the third write, mockDataService.updateProformaInvoice, stores the
\* items with everything else; onSuccess then leaves the edit mode
SaveItems ==
  /\ saving.step = "items"
  /\ doc' = updateProformaInvoice(doc, updateProformaData(form))
  /\ saving' = NotSaving
  /\ form' = NoForm
  /\ totals' = NoTotals
  /\ UNCHANGED <<role, numVars, noteVars, payVars, proVars>>

\* the write the mutation is about to do fails: the mutation throws,
\* onError shows a toast and the form stays open; nothing is undone and
\* nothing is retried
SaveFails ==
  /\ saving.step \in {"totals", "items"}
  /\ saving' = NotSaving
  /\ UNCHANGED <<role, numVars, noteVars, payVars, proVars, form, totals, doc>>

NextCalc ==
  \/ addItem
  \/ \E i \in 1..MaxItems : removeItem(i)
  \/ \E i \in 1..MaxItems, p \in Products : SelectProduct(i, p)
  \/ \E i \in 1..MaxItems, q \in Quantities : SetQuantity(i, q)
  \/ \E i \in 1..MaxItems, d \in Discounts : SetDiscount(i, d)
  \/ \E pt \in PaymentTypes : SetPaymentType(pt)
  \/ CreateInvoice
  \/ SaveProforma
  \/ SaveTotals
  \/ SaveItems

SpecCalc == InitCalc /\ [][NextCalc]_vars

\* ---- saving a stored proforma when datastore writes may fail, and
\* creating a final invoice from it
InitSave == InitCalc /\ doc # NoDoc

\* form.reset of NewFinalInvoice opened with ?proformaId=
sourceProformaForm(sourceProforma) ==
  [page |-> "new-final", payment_type |-> sourceProforma.payment_type,
   items |-> [i \in 1..Len(sourceProforma.items) |->
                [productId |-> sourceProforma.items[i].productId,
                 quantity |-> sourceProforma.items[i].quantity,
                 unitprice |-> sourceProforma.items[i].unitprice,
                 taxrate |-> sourceProforma.items[i].taxrate,
                 discount |-> sourceProforma.items[i].discount]]]

\* the new-final-invoice page is opened on the stored proforma once its
\* edit form is closed
OpenFromProforma ==
  /\ form = NoForm
  /\ doc # NoDoc
  /\ doc.page = "proforma"
  /\ ChangeForm(sourceProformaForm(doc))

NextSave ==
  \/ \E i \in 1..MaxItems, q \in Quantities : SetQuantity(i, q)
  \/ \E i \in 1..MaxItems, d \in Discounts : SetDiscount(i, d)
  \/ \E pt \in PaymentTypes : SetPaymentType(pt)
  \/ SaveProforma
  \/ SaveTotals
  \/ SaveItems
  \/ SaveFails
  \/ OpenFromProforma
  \/ CreateInvoice

SpecSave == InitSave /\ [][NextSave]_vars
\* ---- properties of the calculator
\* the totals the two pages have calculated: what the open form displays
\* and what createInvoiceMutation has persisted
ComputedTotals ==
  (IF form # NoForm
     THEN {[payment_type |-> form.payment_type, subtotal |-> totals.subtotal,
            stampTax |-> totals.stampTax, page |-> form.page]}
     ELSE {}) \cup
  (IF doc # NoDoc /\ doc.page = "new-final"
     THEN {[payment_type |-> doc.payment_type, subtotal |-> doc.subtotal,
            stampTax |-> doc.stampTax, page |-> doc.page]}
     ELSE {})
\* the rate, in thousandths, of the tier a cash subtotal falls in
StampRate(subtotal) ==
  IF subtotal > 100000 * 100 THEN 20
  ELSE IF subtotal > 30000 * 100 THEN 15
  ELSE IF subtotal > 300 * 100 THEN 10
  ELSE 0

\* C18: on both pages the stamp tax is 0 unless the payment type is cash;
\* for cash it is the subtotal times 0.02 above 100000, times 0.015 above
\* 30000, times 0.01 above 300 and 0 otherwise, the thresholds themselves
\* falling in the lower tier (300 gives 0, 30000 gives 300, 100000 gives
\* 1500) and 150000 giving 3000.
C18_StampTaxTiers ==
  \A t \in ComputedTotals :
    /\ t.payment_type # "cash" => t.stampTax = 0
    /\ t.payment_type = "cash" =>
         /\ t.stampTax = PerMille(t.subtotal, StampRate(t.subtotal))
         /\ t.subtotal = 300 * 100 => t.stampTax = 0
         /\ t.subtotal = 30000 * 100 => t.stampTax = 300 * 100
         /\ t.subtotal = 100000 * 100 => t.stampTax = 1500 * 100
         /\ t.subtotal = 150000 * 100 => t.stampTax = 3000 * 100

\* C18 witness: a cash invoice of exactly 100000 has been created from the
\* new-final-invoice page with the stamp tax of the middle tier.
C18_CashAtThreshold ==
  /\ doc # NoDoc
  /\ doc.page = "new-final"
  /\ doc.payment_type = "cash"
  /\ doc.subtotal = 100000 * 100
  /\ doc.stampTax = 1500 * 100

\* the created invoice is the scenario's: cash, one item of quantity 10,
\* unit price 100, tax rate 19 and no discount
ScenarioSaved ==
  /\ doc # NoDoc
  /\ doc.page = "new-final"
  /\ doc.payment_type = "cash"
  /\ Len(doc.items) = 1
  /\ doc.items[1].quantity = 10
  /\ doc.items[1].unitprice = 100 * 100
  /\ doc.items[1].taxrate = 19
  /\ doc.items[1].discount = 0
\* the open form holds the scenario
ScenarioShown ==
  /\ form # NoForm
  /\ form.payment_type = "cash"
  /\ Len(form.items) = 1
  /\ form.items[1].productId # 0
  /\ form.items[1].quantity = 10
  /\ form.items[1].unitprice = 100 * 100
  /\ form.items[1].taxrate = 19
  /\ form.items[1].discount = 0
\* the item amounts of the scenario
ScenarioItem ==
  /\ doc.items[1].totalExcl = 1000 * 100
  /\ doc.items[1].totalTax = 190 * 100
  /\ doc.items[1].total = 1190 * 100

\* C19 as stated: the cash invoice of the single item {10, 100, 19, 0} has
\* totalExcl 1000, totalTax 190, item total 1190, subtotal 1000, stamp tax 0
\* and total 1190.
C19_ScenarioWithoutStamp ==
  /\ ScenarioSaved =>
       /\ ScenarioItem
       /\ doc.subtotal = 1000 * 100
       /\ doc.stampTax = 0
       /\ doc.total = 1190 * 100
  /\ ScenarioShown =>
       /\ totals.subtotal = 1000 * 100
       /\ totals.stampTax = 0
       /\ totals.total = 1190 * 100

\* C19 amended: the cash invoice of the single item {10, 100, 19, 0} has
\* totalExcl 1000, totalTax 190, item total 1190, subtotal 1000, stamp tax
\* 10 (1000 is above the 300 threshold) and total 1200, displayed and
\* persisted.
C19_ScenarioWithStamp ==
  /\ ScenarioSaved =>
       /\ ScenarioItem
       /\ doc.subtotal = 1000 * 100
       /\ doc.stampTax = 10 * 100
       /\ doc.total = 1200 * 100
  /\ ScenarioShown =>
       /\ totals.subtotal = 1000 * 100
       /\ totals.taxTotal = 190 * 100
       /\ totals.stampTax = 10 * 100
       /\ totals.total = 1200 * 100

\* C19 witness: the scenario has been created from the new-final-invoice
\* page with a total of 1200.
C19_ScenarioCreated ==
  /\ ScenarioSaved
  /\ doc.page = "new-final"
  /\ doc.total = 1200 * 100

\* C20: every persisted item has total = totalExcl + totalTax and
\* totalTax = totalExcl * taxrate / 100, within 0.01.
C20_ItemTotalsConsistent ==
  doc # NoDoc =>
    \A i \in 1..Len(doc.items) :
      /\ Abs(doc.items[i].total - (doc.items[i].totalExcl + doc.items[i].totalTax)) <= 1
      /\ Abs(doc.items[i].totalTax - Pct(doc.items[i].totalExcl, doc.items[i].taxrate)) <= 1

\* C20 witness: a discounted, taxed item of quantity 10 has been persisted
\* by one of the forms.
C20_DiscountedItemSaved ==
  /\ doc # NoDoc
  /\ \E i \in 1..Len(doc.items) :
       /\ doc.items[i].discount = 10
       /\ doc.items[i].taxrate = 19
       /\ doc.items[i].quantity = 10
       /\ doc.items[i].totalTax > 0
\* C21: every persisted proforma or final invoice has subtotal = the sum
\* of its items' totalExcl, taxTotal = the sum of their totalTax, and
\* total = subtotal + taxTotal + stampTax, stampTax being the stamp duty of
\* that subtotal and the invoice's payment type.
C21_TotalsAggregateItems ==
  doc # NoDoc =>
    /\ doc.subtotal = Sum(Column(doc.items, "totalExcl"))
    /\ doc.taxTotal = Sum(Column(doc.items, "totalTax"))
    /\ doc.total = doc.subtotal + doc.taxTotal + doc.stampTax
    /\ doc.stampTax = IF doc.payment_type = "cash"
                        THEN PerMille(doc.subtotal, StampRate(doc.subtotal))
                        ELSE 0

\* C23: a failing write of the proforma save leaves the stored proforma's
\* header, totals and items as they were before the save, and the save is
\* not retried.
C23_FailedSaveLeavesNothing ==
  [][SaveFails => (doc' = saving.before /\ saving' = NotSaving)]_vars
\* ------------------------------------------------------------ numbering
\* Invoice numbers of the new-final-invoice page.  A number is the text
\* " "^wraps "F-" LPAD(n, 4) " (facture D'avoir)"^wraps, kept as the pair
\* of n and wraps.  generate_invoice_number runs its statements one after
\* the other, each on the rows committed when it starts, so two calls may
\* interleave between the SELECT and the DELETE.
MaxSeq == 2
MaxWraps == 2
MaxIssued == 2
NoNumber == [n |-> 0, wraps |-> 0]

\* 'F-' || LPAD(next_val::TEXT, 4, '0')
mintedNumber(next_val) == [n |-> next_val, wraps |-> 0]
\* the number createInvoiceMutation stores: ` ${generatedNumber} (facture D'avoir)`
invoiceNumber(generatedNumber) == [generatedNumber EXCEPT !.wraps = @ + 1]
\* the rows of a sequence other than those equal to x
Without(q, x) == SelectSeq(q, LAMBDA y : y # x)
\* splice of the existing invoices
RemoveAt(q, i) == [j \in 1..(Len(q) - 1) |-> IF j < i THEN q[j] ELSE q[j + 1]]

InitNumber ==
  /\ role = [s \in Sessions |-> "admin"]
  /\ inv = NoInv
  /\ payments = <<>>
  /\ nextPid = 0
  /\ edits = 0
  /\ view = [s \in Sessions |-> NoView]
  /\ pend = [s \in Sessions |-> "idle"]
  /\ pro = NoProforma
  /\ finals = {}
  /\ nextFinal = 0
  /\ pview = [s \in Sessions |-> NoProforma]
  /\ undone = {}
  /\ actor = "s1"
  /\ form = NoForm
  /\ totals = NoTotals
  /\ doc = NoDoc
  /\ saving = NotSaving
  /\ seq = 0
  /\ pool = <<>>
  /\ issued = <<>>
  /\ gen = [s \in Sessions |-> NoRequest]
  /\ note = NoNote
  /\ nview = [s \in Sessions |-> NoNote]

\* createInvoiceMutation calls the rpc; the function's SELECT reads the
\* oldest deleted number, or NULL
SelectReusable(s) ==
  /\ gen[s] = NoRequest
  /\ Len(issued) + Cardinality({t \in Sessions : gen[t] # NoRequest}) < MaxIssued
  /\ IF pool # <<>> THEN Head(pool).wraps < MaxWraps ELSE seq < MaxSeq
  /\ gen' = [gen EXCEPT ![s] =
               [pc |-> "selected",
                reused_number |-> IF pool # <<>> THEN Head(pool) ELSE NoNumber]]
  /\ UNCHANGED <<role, noteVars, payVars, proVars, calcVars, seq, pool, issued>>

\* the rest of the function: DELETE the reused number and return it, or
\* take nextval of the sequence
ReturnNumber(s) ==
  /\ gen[s].pc = "selected"
  /\ IF gen[s].reused_number # NoNumber
       THEN /\ pool' = Without(pool, gen[s].reused_number)
            /\ gen' = [gen EXCEPT ![s] =
                         [pc |-> "numbered", reused_number |-> gen[s].reused_number,
                          generatedNumber |-> gen[s].reused_number]]
            /\ UNCHANGED seq
       ELSE /\ seq' = seq + 1
            /\ gen' = [gen EXCEPT ![s] =
                         [pc |-> "numbered", reused_number |-> NoNumber,
                          generatedNumber |-> mintedNumber(seq + 1)]]
            /\ UNCHANGED pool
  /\ UNCHANGED <<role, noteVars, payVars, proVars, calcVars, issued>>

\* createFinalInvoice(invoiceData): the invoice row is inserted
InsertInvoice(s) ==
  /\ gen[s].pc = "numbered"
  /\ issued' = Append(issued, invoiceNumber(gen[s].generatedNumber))
  /\ gen' = [gen EXCEPT ![s] = NoRequest]
  /\ UNCHANGED <<role, noteVars, payVars, proVars, calcVars, seq, pool>>

\* DELETE of the i-th final invoice: the BEFORE DELETE trigger inserts its
\* number in deleted_invoice_numbers, whose number column is UNIQUE
DeleteFinal(i) ==
  /\ i \in 1..Len(issued)
  /\ \A j \in 1..Len(pool) : pool[j] # issued[i]
  /\ pool' = Append(pool, issued[i])
  /\ issued' = RemoveAt(issued, i)
  /\ UNCHANGED <<role, noteVars, payVars, proVars, calcVars, seq, gen>>

NextNumber ==
  \/ \E s \in Sessions : SelectReusable(s)
  \/ \E s \in Sessions : ReturnNumber(s)
  \/ \E s \in Sessions : InsertInvoice(s)
  \/ \E i \in 1..MaxIssued : DeleteFinal(i)

SpecNumber == InitNumber /\ [][NextNumber]_vars

\* C22: the generator returns the oldest pooled number and removes it
\* whenever the pool is non-empty, mints the next sequence value only when
\* the pool is empty, and every deleted invoice's number enters the pool.
C22_PoolBeforeMint ==
  /\ [][\A s \in Sessions : ReturnNumber(s) =>
          IF pool # <<>>
            THEN /\ gen'[s].generatedNumber = Head(pool)
                 /\ pool' = Tail(pool)
                 /\ seq' = seq
            ELSE /\ gen'[s].generatedNumber = mintedNumber(seq + 1)
                 /\ seq' = seq + 1]_vars
  /\ [][\A i \in 1..MaxIssued : DeleteFinal(i) => pool' = Append(pool, issued[i])]_vars

\* C25: no two existing final invoices hold the same number.
C25_NumbersUnique ==
  \A i, j \in 1..Len(issued) : issued[i] = issued[j] => i = j

\* C27: a new invoice given a recycled number stores exactly the number
\* the deleted invoice carried.
C27_RecycledNumberUnchanged ==
  [][\A s \in Sessions :
       (InsertInvoice(s) /\ gen[s].reused_number # NoNumber)
         => issued'[Len(issued')] = gen[s].reused_number]_vars
\* C24: a proforma whose finalInvoiceId is set has status approved, and
\* no final invoice stays linked to a sent, draft or deleted proforma.
C24_LinkedMeansApproved ==
  /\ pro.finalInvoiceId # 0 => pro.status = "approved"
  /\ LinkedFinals # {} => pro.status = "approved"
\* ------------------------------------------------------------ debt reports
\* the final invoices of the client, as the report queries fetch them
invoicesData == IF inv = NoInv THEN <<>> ELSE <<inv>>

\* summary of ClientDebtDetailPage
clientDebtSummary(invoices) ==
  [totalInvoiced |-> Sum(Column(invoices, "total")),
   totalPaid |-> Sum(Column(invoices, "amount_paid")),
   totalDebt |-> Sum(Column(invoices, "client_debt")),
   invoiceCount |-> Len(invoices),
   NonPayeCount |-> Len(SelectSeq(invoices, LAMBDA i : i.client_debt > 0))]

\* the row of the client in ClientsDebtPage
clientsDebtRow(invoices) ==
  [totalDebt |-> Sum(Column(invoices, "client_debt")),
   invoiceCount |-> Len(invoices),
   NonPayeInvoiceCount |-> Len(SelectSeq(invoices, LAMBDA i : i.client_debt > 0))]

\* C29: a final invoice whose stored status is cancelled adds nothing to
\* the debt totals and to the unpaid-invoice counts of the two reports.
C29_CancelledOwesNothing ==
  (inv # NoInv /\ inv.status = "cancelled") =>
    /\ clientDebtSummary(invoicesData).totalDebt = 0
    /\ clientDebtSummary(invoicesData).NonPayeCount = 0
    /\ clientsDebtRow(invoicesData).totalDebt = 0
    /\ clientsDebtRow(invoicesData).NonPayeInvoiceCount = 0
\* ------------------------------------------------------------ delivery notes
\* One delivery note, seen by the sessions through their cached list.
DriverNames == {"Unknown Driver", "Ali", "Omar"}
canCreateNote(s) == checkPermission(s, {"admin", "accountant", "salesperson"})
\* updateDeliveryNote(id, data): the row, if it still exists, takes the
\* fields of data
updateDeliveryNote(row, data) ==
  IF row = NoNote THEN row
  ELSE [f \in DOMAIN row |-> IF f \in DOMAIN data THEN data[f] ELSE row[f]]
\* the guards of the buttons of the detail page
canEditNote(s) == canEdit(s) /\ nview[s].status = "pending"
canDeleteNote(s) == canEdit(s) /\ nview[s].status = "pending"
canMarkDelivered(s) == nview[s].status = "pending"

InitNote ==
  /\ role \in Logins
  /\ inv = NoInv
  /\ payments = <<>>
  /\ nextPid = 0
  /\ edits = 0
  /\ view = [s \in Sessions |-> NoView]
  /\ pend = [s \in Sessions |-> "idle"]
  /\ pro = NoProforma
  /\ finals = {}
  /\ nextFinal = 0
  /\ pview = [s \in Sessions |-> NoProforma]
  /\ undone = {}
  /\ actor = "s1"
  /\ form = NoForm
  /\ totals = NoTotals
  /\ doc = NoDoc
  /\ saving = NotSaving
  /\ seq = 0
  /\ pool = <<>>
  /\ issued = <<>>
  /\ gen = [s \in Sessions |-> NoRequest]
  /\ note = NoNote
  /\ nview = [s \in Sessions |-> NoNote]

\* createMutation of NewDeliveryNote
CreateNote(s, driver) ==
  /\ canCreateNote(s)
  /\ note = NoNote
  /\ note' = [status |-> "pending", drivername |-> driver, deliverydate |-> "null"]
  /\ UNCHANGED <<role, numVars, payVars, proVars, calcVars, nview>>

\* the deliveryNotes query of a session is fetched again
RefetchNotes(s) ==
  /\ nview[s] # note
  /\ nview' = [nview EXCEPT ![s] = note]
  /\ UNCHANGED <<role, numVars, payVars, proVars, calcVars, note>>

\* a write of the detail page, followed by the refetch of onSuccess
WriteNote(s, row) ==
  /\ note' = row
  /\ nview' = [nview EXCEPT ![s] = row]
  /\ UNCHANGED <<role, numVars, payVars, proVars, calcVars>>

\* "Modifier le bon de livraison" and the submit of the edit form
EditNote(s, driver) ==
  /\ nview[s] # NoNote
  /\ canEditNote(s)
  /\ driver # nview[s].drivername
  /\ WriteNote(s, updateDeliveryNote(note, [drivername |-> driver]))

\* "Marquer comme délivré": markAsDeliveredMutation
MarkDelivered(s) ==
  /\ nview[s] # NoNote
  /\ canMarkDelivered(s)
  /\ WriteNote(s, updateDeliveryNote(note, [status |-> "delivered", deliverydate |-> "today"]))

\* "Supprimer": deleteDeliveryNoteMutation
DeleteNote(s) ==
  /\ nview[s] # NoNote
  /\ canDeleteNote(s)
  /\ WriteNote(s, NoNote)

NextNote ==
  \/ \E s \in Sessions, d \in DriverNames : CreateNote(s, d)
  \/ \E s \in Sessions : RefetchNotes(s)
  \/ \E s \in Sessions, d \in DriverNames : EditNote(s, d)
  \/ \E s \in Sessions : MarkDelivered(s)
  \/ \E s \in Sessions : DeleteNote(s)

SpecNote == InitNote /\ [][NextNote]_vars

\* C30: a delivery note is created pending; it is edited, deleted or
\* marked delivered only while its stored status is pending, so a delivered
\* note is never changed or deleted again.
C30_DeliveredIsTerminal ==
  [][note' # note =>
       \/ note = NoNote /\ note'.status = "pending"
       \/ note.status = "pending"]_vars
\* C26: a final invoice created from a proforma with the same items and
\* payment type has the subtotal, taxTotal and total stored on that
\* proforma (a proforma whose stored totals are those of its stored items).
C26_FinalTotalsMatchProforma ==
  [][(CreateInvoice /\ doc # NoDoc /\ doc.page = "proforma"
        /\ form = sourceProformaForm(doc) /\ C21_TotalsAggregateItems)
       => /\ doc'.subtotal = doc.subtotal
          /\ doc'.taxTotal = doc.taxTotal
          /\ doc'.total = doc.total]_vars

\* C28: the totalExcl, totalTax and total persisted for an item that
\* passed form validation are non-negative, and so are the persisted
\* subtotal and total.
C28_PersistedAmountsNonNegative ==
  doc # NoDoc =>
    /\ \A i \in 1..Len(doc.items) :
         /\ doc.items[i].totalExcl >= 0
         /\ doc.items[i].totalTax >= 0
         /\ doc.items[i].total >= 0
    /\ doc.subtotal >= 0
    /\ doc.total >= 0
====
